---- MODULE Spec2Model ----
(***************************************************************************)
(* A model of the notebook AmazonProductDataExploration.py: the edge files *)
(* read through the CSV reader, the product metadata file parsed with      *)
(* regular expressions, and the queries Q1 (rating percentages), Q2        *)
(* (consistently bidirectional edges) and Q3 (breadth-first search to a    *)
(* product of another group).                                              *)
(*                                                                         *)
(* The text of an edge file line is a sequence of one-character strings;  *)
(* the text of the metadata file is a sequence of lines and line breaks.   *)
(* A DataFrame is a bag of rows (Spark keeps duplicates and promises no    *)
(* order), or a sequence of rows where the order is looked at.  A nullable *)
(* column is NULL or Some(v).  The reader, the SQL engine and GraphFrames  *)
(* are modelled by what they do on the calls the notebook makes (Spark 3:  *)
(* the CSV reader's default mode is PERMISSIVE).                           *)
(***************************************************************************)
EXTENDS Integers, Sequences, FiniteSets, Bags, TLC

VARIABLES
    pc,                     \* the notebook cell (or statement) that runs next
    error,                  \* the exception that ended a cell, "" for none
    early_march_df,         \* line 68
    late_march_df,          \* line 74
    may_df,                 \* line 80
    june_df,                \* line 86
    consistent_bidirectional_edges,  \* line 253
    meta_file,              \* the text at meta_file_location
    metadata_df,            \* line 120
    node_metadata_df,       \* line 155
    rating_percentages_df,  \* line 198
    g,                      \* line 309: the GraphFrame
    start_title,            \* line 314
    maxPathLength,          \* the argument of g.bfs, line 319
    start_node_group,       \* line 316
    start_node_id,          \* line 317
    bfs_paths,              \* g.bfs: the search paths
    bfs_iter,               \* g.bfs: the number of steps taken
    bfs_found,              \* g.bfs: a path has reached a target
    paths                   \* line 319: the rows shown

edgeVars == <<early_march_df, late_march_df, may_df, june_df,
              consistent_bidirectional_edges>>

metaVars == <<meta_file, metadata_df, node_metadata_df, rating_percentages_df>>

bfsVars == <<g, start_title, maxPathLength, start_node_group, start_node_id,
             bfs_paths, bfs_iter, bfs_found, paths>>

vars == <<pc, error, edgeVars, metaVars, bfsVars>>

(***************************************************************************)
(* Bounds                                                                  *)
(***************************************************************************)
MaxLines == 2           \* lines of one edge file
MaxBlocks == 2          \* record blocks of the metadata file
MaxReviews == 2         \* review lines of one record block
MaxProduct == 3         \* products of the graph of Q3
MaxEdges == 3           \* edges of the June snapshot in Q3
MaxDepth == 2           \* the largest maxPathLength asked for

(***************************************************************************)
(* Text and nullable values                                                *)
(***************************************************************************)
NULL == <<>>
Some(v) == <<v>>
IsNull(x) == x = NULL
Val(x) == x[1]

Digits == {"0", "1", "2", "3", "4", "5", "6", "7", "8", "9"}

DigitVal(c) ==
    CASE c = "0" -> 0 [] c = "1" -> 1 [] c = "2" -> 2 [] c = "3" -> 3
      [] c = "4" -> 4 [] c = "5" -> 5 [] c = "6" -> 6 [] c = "7" -> 7
      [] c = "8" -> 8 [] c = "9" -> 9

RECURSIVE Number(_)
\* the value of a string of digits
Number(s) ==
    IF s = <<>> THEN 0
    ELSE 10 * Number(SubSeq(s, 1, Len(s) - 1)) + DigitVal(s[Len(s)])

Min(S) == CHOOSE x \in S : \A y \in S : x <= y
Max(S) == CHOOSE x \in S : \A y \in S : x >= y

RECURSIVE SplitOn(_, _)
\* the fields of the text s between the occurrences of the separator sep (a
\* text, found left to right); an empty s has one (empty) field, and
\* trailing empty fields are kept
SplitOn(s, sep) ==
    LET n == Len(sep)
        hits == {j \in 1..(Len(s) - n + 1) : SubSeq(s, j, j + n - 1) = sep}
    IN  IF hits = {} THEN <<s>>
        ELSE <<SubSeq(s, 1, Min(hits) - 1)>>
                 \o SplitOn(SubSeq(s, Min(hits) + n, Len(s)), sep)

SeqsUpTo(S, n) == UNION {[1..m -> S] : m \in 0..n}

(***************************************************************************)
(* Edge files: spark.read.format("csv") with delimiter "\t", comment "#",  *)
(* the schema conn_schema of two nullable integers and the reader's        *)
(* default mode (PERMISSIVE).                                              *)
(***************************************************************************)
TAB == "\t"
COMMENT == "#"

\* the well-formed lines of the model's edge files: a comment and three
\* edges, one of them a self-loop
EdgeLines ==
    { <<"#", "x">>,
      <<"1", TAB, "2">>,
      <<"2", TAB, "1">>,
      <<"1", TAB, "1">> }

\* malformed lines: one field, a field that is no integer, three fields
MalformedEdgeLines ==
    { <<"1">>,
      <<"1", TAB, "x">>,
      <<"1", TAB, "2", TAB, "3">> }

\* the files explored: malformed lines are put in the early-March file only
\* (all four files go through the same reader, LoadEdges)
EdgeFiles == SeqsUpTo(EdgeLines, MaxLines)
EarlyMarchFiles == SeqsUpTo(EdgeLines \cup MalformedEdgeLines, MaxLines)

\* a field cast to IntegerType: NULL when it is not a number
CastInt(f) ==
    IF f # <<>> /\ \A i \in 1..Len(f) : f[i] \in Digits
    THEN Some(Number(f)) ELSE NULL

\* the value of column i of a tokenized line: missing tokens are padded with
\* null, extra tokens are dropped
Column(tokens, i) == IF i <= Len(tokens) THEN CastInt(tokens[i]) ELSE NULL

Row(f, t) == [FromNodeId |-> f, ToNodeId |-> t]

\* the reader skips empty lines and lines that start with the comment
\* character
Skipped(line) == line = <<>> \/ line[1] = COMMENT

\* conn_schema applied to one line that is not skipped
ParseLine(line) ==
    LET tokens == SplitOn(line, <<TAB>>)
    IN  Row(Column(tokens, 1), Column(tokens, 2))

RECURSIVE LoadEdges(_)
\* the DataFrame read from an edge file
LoadEdges(file) ==
    IF file = <<>> THEN EmptyBag
    ELSE LET rest == LoadEdges(Tail(file))
         IN  IF Skipped(Head(file)) THEN rest
             ELSE rest (+) SetToBag({ParseLine(Head(file))})

(***************************************************************************)
(* Q2: bidirectional edges of each snapshot, intersected                   *)
(***************************************************************************)
\* SQL equality: not true when either side is null
SqlEq(a, b) == ~IsNull(a) /\ ~IsNull(b) /\ Val(a) = Val(b)

\* a join that compares one pair of columns only
JoinOn_FromOnly(e1, e2) == SqlEq(e1.FromNodeId, e2.ToNodeId)

\* ON e1.FromNodeId = e2.ToNodeId AND e1.ToNodeId = e2.FromNodeId
JoinOn(e1, e2) ==
    SqlEq(e1.FromNodeId, e2.ToNodeId) /\ SqlEq(e1.ToNodeId, e2.FromNodeId)

\* SELECT e1.FromNodeId, e1.ToNodeId FROM df e1 JOIN df e2 ON ...: one row
\* e1 for every matching row e2, so a bag
SelfJoin(df) ==
    LET matches(e1) ==
            BagCardinality([e2 \in {e \in BagToSet(df) : JoinOn(e1, e)}
                               |-> CopiesIn(e2, df)])
        rows == {e1 \in BagToSet(df) : matches(e1) > 0}
    IN  [e1 \in rows |-> CopiesIn(e1, df) * matches(e1)]

\* SELECT DISTINCT
Distinct(df) == SetToBag(BagToSet(df))

\* the SQL statement of lines 224-250
BidirectionalEdges(df) == Distinct(SelfJoin(df))

\* DataFrame.intersect: the distinct rows found in both
Intersect(a, b) == SetToBag(BagToSet(a) \cap BagToSet(b))

\* the chain of intersections without its last link
ConsistentBidirectionalEdges_NoJune(em, lm, my, jn) ==
    Intersect(Intersect(BidirectionalEdges(em), BidirectionalEdges(lm)),
              BidirectionalEdges(my))

\* lines 253-256
ConsistentBidirectionalEdges(em, lm, my, jn) ==
    Intersect(Intersect(Intersect(BidirectionalEdges(em),
                                  BidirectionalEdges(lm)),
                        BidirectionalEdges(my)),
              BidirectionalEdges(jn))

(***************************************************************************)
(* The cells that read the edge files and answer Q2                        *)
(***************************************************************************)
NoEdges ==
    /\ early_march_df = EmptyBag
    /\ late_march_df = EmptyBag
    /\ may_df = EmptyBag
    /\ june_df = EmptyBag
    /\ consistent_bidirectional_edges = EmptyBag

NoMetadata ==
    /\ meta_file = <<>>
    /\ metadata_df = <<>>
    /\ node_metadata_df = <<>>
    /\ rating_percentages_df = <<>>

NoSearch ==
    /\ g = [vertices |-> {}, edges |-> EmptyBag]
    /\ start_title = ""
    /\ maxPathLength = 0
    /\ start_node_group = ""
    /\ start_node_id = 0
    /\ bfs_paths = {}
    /\ bfs_iter = 0
    /\ bfs_found = FALSE
    /\ paths = {}

InitEdges ==
    /\ pc = "load_early_march"
    /\ NoEdges
    /\ error = ""
    /\ NoMetadata
    /\ NoSearch

LoadEarlyMarch ==
    /\ pc = "load_early_march"
    /\ \E file \in EarlyMarchFiles : early_march_df' = LoadEdges(file)
    /\ pc' = "load_late_march"
    /\ UNCHANGED <<late_march_df, may_df, june_df, consistent_bidirectional_edges>>
    /\ UNCHANGED <<error, metaVars, bfsVars>>

LoadLateMarch ==
    /\ pc = "load_late_march"
    /\ \E file \in EdgeFiles : late_march_df' = LoadEdges(file)
    /\ pc' = "load_may"
    /\ UNCHANGED <<early_march_df, may_df, june_df, consistent_bidirectional_edges>>
    /\ UNCHANGED <<error, metaVars, bfsVars>>

LoadMay ==
    /\ pc = "load_may"
    /\ \E file \in EdgeFiles : may_df' = LoadEdges(file)
    /\ pc' = "load_june"
    /\ UNCHANGED <<early_march_df, late_march_df, june_df, consistent_bidirectional_edges>>
    /\ UNCHANGED <<error, metaVars, bfsVars>>

LoadJune ==
    /\ pc = "load_june"
    /\ \E file \in EdgeFiles : june_df' = LoadEdges(file)
    /\ pc' = "q2"
    /\ UNCHANGED <<early_march_df, late_march_df, may_df, consistent_bidirectional_edges>>
    /\ UNCHANGED <<error, metaVars, bfsVars>>

Q2 ==
    /\ pc = "q2"
    /\ consistent_bidirectional_edges' =
           ConsistentBidirectionalEdges(early_march_df, late_march_df,
                                        may_df, june_df)
    /\ pc' = "q2_done"
    /\ UNCHANGED <<early_march_df, late_march_df, may_df, june_df>>
    /\ UNCHANGED <<error, metaVars, bfsVars>>

NextEdges == LoadEarlyMarch \/ LoadLateMarch \/ LoadMay \/ LoadJune \/ Q2

SpecEdges == InitEdges /\ [][NextEdges]_vars

(***************************************************************************)
(* Claims about the edge files and Q2 (checked under SpecEdges)            *)
(***************************************************************************)
Snapshots == <<early_march_df, late_march_df, may_df, june_df>>

HasEdge(df, u, v) == BagIn(Row(Some(u), Some(v)), df)

\* the node ids that occur in some snapshot
SnapshotNodeIds ==
    UNION {{Val(r.FromNodeId) : r \in {x \in BagToSet(Snapshots[i]) : ~IsNull(x.FromNodeId)}}
           \cup {Val(r.ToNodeId) : r \in {x \in BagToSet(Snapshots[i]) : ~IsNull(x.ToNodeId)}}
           : i \in 1..4}

BidirectionalIn(df, u, v) == HasEdge(df, u, v) /\ HasEdge(df, v, u)

IntersectionOrders == Permutations(1..4)

\* the four per-snapshot results b intersected in the order p
IntersectedInOrder(b, p) ==
    Intersect(Intersect(Intersect(b[p[1]], b[p[2]]), b[p[3]]), b[p[4]])

\* C1: a pair (u, v) is a row of consistent_bidirectional_edges if and only
\* if both u->v and v->u are edges of every one of the four snapshots (so a
\* pair bidirectional in three snapshots only is left out, and an empty
\* snapshot empties the result), and the result is the same whatever the
\* order in which the four per-snapshot results are intersected.
C1_ConsistentIffBidirectionalInAll ==
    pc = "q2_done" =>
        /\ \A r \in BagToSet(consistent_bidirectional_edges) :
               ~IsNull(r.FromNodeId) /\ ~IsNull(r.ToNodeId)
        /\ \A u, v \in SnapshotNodeIds :
               HasEdge(consistent_bidirectional_edges, u, v)
                   <=> \A i \in 1..4 : BidirectionalIn(Snapshots[i], u, v)
        /\ (\E i \in 1..4 : Snapshots[i] = EmptyBag)
               => consistent_bidirectional_edges = EmptyBag
        /\ \A b \in {<<BidirectionalEdges(early_march_df),
                      BidirectionalEdges(late_march_df),
                      BidirectionalEdges(may_df),
                      BidirectionalEdges(june_df)>>} :
               \A p \in IntersectionOrders :
                   IntersectedInOrder(b, p) = consistent_bidirectional_edges

\* the pair (1, 2) is bidirectional in the first three snapshots and not in
\* June, and Q2 has left it out
C1_Witness ==
    /\ pc = "q2_done"
    /\ \A i \in 1..3 : BidirectionalIn(Snapshots[i], 1, 2)
    /\ ~BidirectionalIn(june_df, 1, 2)
    /\ june_df # EmptyBag
    /\ ~HasEdge(consistent_bidirectional_edges, 1, 2)

\* C9: no row of a loaded edge set comes from a malformed line: every row
\* has two integer fields.
C9_EveryEdgeHasTwoIntegers ==
    \A i \in 1..4 : \A r \in BagToSet(Snapshots[i]) :
        ~IsNull(r.FromNodeId) /\ ~IsNull(r.ToNodeId)

\* C10: consistent_bidirectional_edges has no duplicate row and holds the
\* row (v, u) whenever it holds the row (u, v).
C10_SymmetricAndDistinct ==
    pc = "q2_done" =>
        \A r \in BagToSet(consistent_bidirectional_edges) :
            /\ CopiesIn(r, consistent_bidirectional_edges) = 1
            /\ BagIn(Row(r.ToNodeId, r.FromNodeId), consistent_bidirectional_edges)

\* every snapshot holds 1->2 and 2->1, and the pair is reported as two rows
C10_Witness ==
    /\ pc = "q2_done"
    /\ BagToSet(consistent_bidirectional_edges) =
           {Row(Some(1), Some(2)), Row(Some(2), Some(1))}
    /\ BagCardinality(consistent_bidirectional_edges) = 2

(***************************************************************************)
(* The metadata file.  Its text is a sequence of lines and line breaks: a  *)
(* line is the key it starts with and the value that ends it, and CRLF is  *)
(* the line break "\r\n".  A value that a pattern captures within one line *)
(* is a string; a capture that can span lines (title, categories, reviews) *)
(* is a text, the sequence of its lines and line breaks.                   *)
(***************************************************************************)
Atom(k, v) == [key |-> k, val |-> v]
CRLF == Atom("CRLF", "")
EmptyText == <<>>

PRODUCT == "21"                     \* the id of line 184
ProductIds == {"21", "22"}          \* the ids of the model's record blocks
Ratings == {"5", "4"}               \* the ratings of the model's review lines

IsNumeral(v) == v \in Digits \cup ProductIds

\* the lines of a record block
IdLine(id) == Atom("Id", id)
AsinLine == Atom("ASIN", "B00")
TitleLine == Atom("title", "T")
GroupLine == Atom("group", "Book")
SalesrankLine == Atom("salesrank", "7")
SimilarLine == Atom("similar", "0")
CategoriesLine == Atom("categories", "1")
CategoryLine == Atom("|Books", "]")
ReviewsLine == Atom("reviews", "5")         \* ... avg rating: 5
ReviewLine(r) == Atom("rating", r)          \* <date> cutomer: <c> rating: r ...
DiscontinuedLine == Atom("discontinued product", "")

RECURSIVE JoinWith(_, _)
\* the texts of ts, one after the other, with sep between two of them
JoinWith(ts, sep) ==
    IF ts = <<>> THEN <<>>
    ELSE IF Len(ts) = 1 THEN ts[1]
    ELSE ts[1] \o sep \o JoinWith(Tail(ts), sep)

LinesText(ls) == JoinWith([i \in 1..Len(ls) |-> <<ls[i]>>], <<CRLF>>)

\* a product's block with the review lines of ratings rs
FullBlock(id, rs) ==
    LinesText(<<IdLine(id), AsinLine, TitleLine, GroupLine, SalesrankLine,
                SimilarLine, CategoriesLine, CategoryLine, ReviewsLine>>
              \o [i \in 1..Len(rs) |-> ReviewLine(rs[i])])

DiscontinuedBlock(id) == LinesText(<<IdLine(id), AsinLine, DiscontinuedLine>>)

\* a block cut after its ASIN
TruncatedBlock(id) == LinesText(<<IdLine(id), AsinLine>>)

\* the blocks of the model's metadata files: for PRODUCT every list of up to
\* MaxReviews review lines, the same block followed by a line break (the end
\* of a file that ends in one line break), a discontinued and a truncated
\* product, and for the other id a product with one review and a
\* discontinued one
Blocks ==
    {FullBlock(PRODUCT, rs) : rs \in SeqsUpTo(Ratings, MaxReviews)}
        \cup {FullBlock(PRODUCT, <<>>) \o <<CRLF>>,
              DiscontinuedBlock(PRODUCT), TruncatedBlock(PRODUCT),
              FullBlock("22", <<"5">>), DiscontinuedBlock("22")}

PARAGRAPH == <<CRLF, CRLF>>         \* lineSep of line 119

MetaFiles == {JoinWith(bs, PARAGRAPH) : bs \in SeqsUpTo(Blocks, MaxBlocks)}

\* spark.read.text(path, lineSep): one row per record; the text after the
\* last separator is a record unless it is empty
ReadText(file, sep) ==
    LET rows == SplitOn(file, sep)
    IN  IF rows[Len(rows)] = <<>> THEN SubSeq(rows, 1, Len(rows) - 1) ELSE rows

At(b, i, k) == i \in 1..Len(b) /\ b[i].key = k

\* the places where r'(\d+)\s*\nASIN:\s+(\w+)\s*\n' matches: a line that
\* ends in digits, a line break, the ASIN line, a line break
AnchorMatches(b) ==
    {i \in 1..Len(b) :
        /\ b[i].key # "CRLF" /\ IsNumeral(b[i].val)
        /\ At(b, i + 1, "CRLF") /\ At(b, i + 2, "ASIN") /\ At(b, i + 3, "CRLF")}

\* regexp_extract(value, anchor, 1) and (..., 2): of the first match, and the
\* empty string when there is none
AnchorId(b) ==
    IF AnchorMatches(b) = {} THEN "" ELSE b[Min(AnchorMatches(b))].val
AnchorAsin(b) ==
    IF AnchorMatches(b) = {} THEN "" ELSE b[Min(AnchorMatches(b)) + 2].val

\* the matches <<i, gl, rl>> of the pattern `regex` (line 118): the Id line at
\* i, the ASIN and title lines after it, the group line at gl (the title runs
\* up to the line break before it) followed by the salesrank, similar and
\* categories lines, and the reviews line at rl followed by a line break
CompositeMatches(b) ==
    LET ids == {i \in 1..Len(b) :
                   /\ At(b, i, "Id") /\ IsNumeral(b[i].val)
                   /\ At(b, i + 1, "CRLF") /\ At(b, i + 2, "ASIN")
                   /\ At(b, i + 3, "CRLF") /\ At(b, i + 4, "title")}
        groups == {gl \in 1..Len(b) :
                   /\ At(b, gl - 1, "CRLF") /\ At(b, gl, "group")
                   /\ At(b, gl + 1, "CRLF") /\ At(b, gl + 2, "salesrank")
                   /\ At(b, gl + 3, "CRLF") /\ At(b, gl + 4, "similar")
                   /\ At(b, gl + 5, "CRLF") /\ At(b, gl + 6, "categories")
                   /\ At(b, gl + 7, "CRLF")}
        reviews == {rl \in 1..Len(b) :
                   At(b, rl, "reviews") /\ At(b, rl + 1, "CRLF")}
    IN  {m \in ids \X groups \X reviews : m[2] > m[1] + 5 /\ m[3] > m[2] + 7}

\* the match the regex engine reports: the leftmost, its quantifiers greedy
CompositeMatch(b) ==
    LET ms == CompositeMatches(b)
        i == Min({m[1] : m \in ms})
        gl == Max({m[2] : m \in {x \in ms : x[1] = i}})
        rl == Max({m[3] : m \in {x \in ms : x[1] = i /\ x[2] = gl}})
    IN  <<i, gl, rl>>

\* the values regexp_extract gives for the groups 3 to 13 when there is no
\* match
NoGroups ==
    [title |-> EmptyText, group |-> "", salesrank |-> "",
     similar_count |-> "", similar |-> EmptyText, categories_count |-> "",
     categories |-> EmptyText, reviews_total |-> "",
     reviews_downloaded |-> "", reviews_avg_rating |-> "",
     reviews |-> EmptyText]

\* an extraction that takes each field from its own line wherever the line
\* is, whether the whole pattern matches or not
CompositeGroups_PerField(b) ==
    LET at(k) == {i \in 1..Len(b) : b[i].key = k}
        val(k) == IF at(k) = {} THEN "" ELSE b[Min(at(k))].val
    IN  [NoGroups EXCEPT
            !.title = IF at("title") = {} THEN EmptyText
                      ELSE <<b[Min(at("title"))]>>,
            !.group = val("group"),
            !.salesrank = val("salesrank"),
            !.similar_count = val("similar"),
            !.categories_count = val("categories"),
            !.reviews_avg_rating = val("reviews")]

\* regexp_extract(value, regex, n) for n = 3..13
CompositeGroups(b) ==
    IF CompositeMatches(b) = {} THEN NoGroups
    ELSE LET i == CompositeMatch(b)[1]
             gl == CompositeMatch(b)[2]
             rl == CompositeMatch(b)[3]
         IN  [title |-> SubSeq(b, i + 4, gl - 2),
              group |-> b[gl].val,
              salesrank |-> b[gl + 2].val,
              similar_count |-> b[gl + 4].val,
              similar |-> EmptyText,
              categories_count |-> b[gl + 6].val,
              categories |-> SubSeq(b, gl + 8, rl - 1),
              reviews_total |-> b[rl].val,
              reviews_downloaded |-> b[rl].val,
              reviews_avg_rating |-> b[rl].val,
              reviews |-> SubSeq(b, rl + 2, Len(b))]

\* lines 121-136: the columns of one row of df1
ParseBlock(b) ==
    LET c == CompositeGroups(b)
    IN  [id |-> AnchorId(b), asin |-> AnchorAsin(b),
         title |-> c.title, group |-> c.group, salesrank |-> c.salesrank,
         similar_count |-> c.similar_count,
         similar |-> SplitOn(c.similar, <<Atom(" ", "")>>),
         categories_count |-> c.categories_count,
         categories |-> SplitOn(c.categories, <<CRLF>>),
         reviews_total |-> c.reviews_total,
         reviews_downloaded |-> c.reviews_downloaded,
         reviews_avg_rating |-> c.reviews_avg_rating,
         reviews |-> SplitOn(c.reviews, <<CRLF>>)]

IdPresent(r) == r.id # ""

\* lines 119-137
ParseMetadata(file) ==
    LET df1 == ReadText(file, PARAGRAPH)
    IN  SelectSeq([i \in 1..Len(df1) |-> ParseBlock(df1[i])], IdPresent)

(***************************************************************************)
(* Q1: the percentages of the ratings of the product PRODUCT               *)
(***************************************************************************)
\* line 184
FilterId(df, p) == SelectSeq(df, LAMBDA r : r.id = p)

RECURSIVE Explode(_)
\* line 187: one row per element of the reviews array of every row
Explode(df) == IF df = <<>> THEN <<>> ELSE Head(df).reviews \o Explode(Tail(df))

\* line 188: regexp_extract(review, r"rating:\s+(\d+)", 1): the rating of the
\* first review line of the text, the empty string when it has none
Rating(review) ==
    LET hits == {i \in 1..Len(review) : review[i].key = "rating"}
    IN  IF hits = {} THEN "" ELSE review[Min(hits)].val

\* line 191: groupBy("rating").count(), a bag of rating values
RatingCounts(reviews) ==
    LET rating == [i \in 1..Len(reviews) |-> Rating(reviews[i])]
    IN  [r \in {rating[i] : i \in 1..Len(reviews)}
            |-> Cardinality({i \in 1..Len(reviews) : rating[i] = r})]

\* an aggregate that, like a grouped one, has no row when its input has none
AggSum_Grouped(counts) ==
    IF counts = EmptyBag THEN <<>> ELSE <<Some(BagCardinality(counts))>>

\* line 194: agg(F.sum("count")).collect(): an aggregate without grouping has
\* one row, and the sum of no rows is null
AggSum(counts) ==
    <<IF counts = EmptyBag THEN NULL ELSE Some(BagCardinality(counts))>>

\* line 195: (count / total_ratings) * 100, kept as the fraction num / den;
\* null when total_ratings is null or zero
Percentage(count, total) ==
    IF IsNull(total) \/ total = Some(0) THEN NULL
    ELSE Some([num |-> count * 100, den |-> Val(total)])

\* the order of the strings of the rating column: the empty string first,
\* then the digits
StringLess(a, b) ==
    \/ a = "" /\ b # ""
    \/ a # "" /\ b # "" /\ DigitVal(a) < DigitVal(b)

RECURSIVE OrderByRatingDesc(_)
\* line 198
OrderByRatingDesc(rows) ==
    IF rows = {} THEN <<>>
    ELSE LET top == CHOOSE r \in rows :
                        \A q \in rows : ~StringLess(r.rating, q.rating)
         IN  <<top>> \o OrderByRatingDesc(rows \ {top})

(***************************************************************************)
(* The cells that read the metadata file and answer Q1                     *)
(***************************************************************************)
InitMeta ==
    /\ pc = "read_metadata"
    /\ error = ""
    /\ NoEdges
    /\ NoMetadata
    /\ NoSearch

\* lines 119-137
ReadMetadata ==
    /\ pc = "read_metadata"
    /\ \E file \in MetaFiles :
           /\ meta_file' = file
           /\ metadata_df' = ParseMetadata(file)
    /\ pc' = "save_table"
    /\ UNCHANGED <<error, edgeVars, node_metadata_df, rating_percentages_df, bfsVars>>

\* lines 150-155
SaveTable ==
    /\ pc = "save_table"
    /\ node_metadata_df' = metadata_df
    /\ pc' = "q1"
    /\ UNCHANGED <<error, edgeVars, meta_file, metadata_df, rating_percentages_df, bfsVars>>

\* lines 184-198
Q1 ==
    /\ pc = "q1"
    /\ LET product_21_df == FilterId(node_metadata_df, PRODUCT)
           product_21_reviews_df == Explode(product_21_df)
           rating_counts_df == RatingCounts(product_21_reviews_df)
           collected == AggSum(rating_counts_df)
       IN  IF collected = <<>>
           THEN \* collect()[0] of no rows
                /\ error' = "IndexError"
                /\ pc' = "q1_failed"
                /\ UNCHANGED rating_percentages_df
           ELSE /\ rating_percentages_df' =
                       OrderByRatingDesc(
                           {[rating |-> r,
                             count |-> rating_counts_df[r],
                             percentage |-> Percentage(rating_counts_df[r],
                                                       collected[1])]
                              : r \in DOMAIN rating_counts_df})
                /\ pc' = "q1_done"
                /\ UNCHANGED error
    /\ UNCHANGED <<edgeVars, meta_file, metadata_df, node_metadata_df, bfsVars>>

NextMeta == ReadMetadata \/ SaveTable \/ Q1

SpecMeta == InitMeta /\ [][NextMeta]_vars

(***************************************************************************)
(* Claims about the parser and Q1 (checked under SpecMeta), stated against *)
(* the text of the metadata file                                           *)
(***************************************************************************)
FileBlocks == ReadText(meta_file, PARAGRAPH)

\* the block has the line Id: p
BlockOf(b, p) == \E i \in 1..Len(b) : b[i] = IdLine(p)

RECURSIVE ReviewRatings(_)
\* the ratings of the review lines of a text, in order
ReviewRatings(b) ==
    IF b = <<>> THEN <<>>
    ELSE (IF Head(b).key = "rating" THEN <<Head(b).val>> ELSE <<>>)
             \o ReviewRatings(Tail(b))

RECURSIVE RatingsOfProduct(_, _)
\* the ratings of the review lines of the product p in the blocks bs
RatingsOfProduct(bs, p) ==
    IF bs = <<>> THEN <<>>
    ELSE (IF BlockOf(Head(bs), p) THEN ReviewRatings(Head(bs)) ELSE <<>>)
             \o RatingsOfProduct(Tail(bs), p)

Occurrences(seq, x) == Cardinality({i \in 1..Len(seq) : seq[i] = x})

RECURSIVE SumNum(_)
\* the sum of the numerators of the percentages
SumNum(rows) ==
    IF rows = <<>> THEN 0
    ELSE Val(Head(rows).percentage).num + SumNum(Tail(rows))

\* the percentages are fractions of one denominator and sum to 100
PercentagesSumTo100(rows) ==
    /\ rows # <<>>
    /\ \A i \in 1..Len(rows) :
           /\ ~IsNull(rows[i].percentage)
           /\ Val(rows[i].percentage).den = Val(rows[1].percentage).den
    /\ SumNum(rows) = 100 * Val(rows[1].percentage).den

ProductParsed(p) == \E i \in 1..Len(node_metadata_df) : node_metadata_df[i].id = p

\* C2: when the product has at least one review the percentages of the
\* returned rows sum to 100; when the product exists and has no review the
\* histogram is the empty sequence.
C2_HistogramTotals ==
    pc = "q1_done" =>
        LET rs == RatingsOfProduct(FileBlocks, PRODUCT)
        IN  /\ Len(rs) >= 1 => PercentagesSumTo100(rating_percentages_df)
            /\ (ProductParsed(PRODUCT) /\ Len(rs) = 0)
                   => rating_percentages_df = <<>>

\* C3: the histogram has exactly one row for every rating that occurs among
\* the product's reviews and no other row, with the number of reviews of
\* that rating as its count and count / total * 100 as its percentage, total
\* being the number of reviews, and its rows are in strictly descending order
\* of rating.
C3_HistogramRows ==
    (pc = "q1_done" /\ ProductParsed(PRODUCT)) =>
        LET rs == RatingsOfProduct(FileBlocks, PRODUCT)
            h == rating_percentages_df
        IN  /\ {h[i].rating : i \in 1..Len(h)} = {rs[i] : i \in 1..Len(rs)}
            /\ \A i \in 1..Len(h) :
                   /\ h[i].count = Occurrences(rs, h[i].rating)
                   /\ h[i].percentage =
                          Some([num |-> h[i].count * 100, den |-> Len(rs)])
            /\ \A i \in 1..(Len(h) - 1) : StringLess(h[i + 1].rating, h[i].rating)

\* C4: when no parsed record has the requested id, the query ends without
\* an error and its result is the empty sequence.
C4_UnknownProductGivesEmptyResult ==
    (pc \in {"q1_done", "q1_failed"} /\ ~ProductParsed(PRODUCT)) =>
        /\ pc = "q1_done"
        /\ error = ""
        /\ rating_percentages_df = <<>>

\* the query has run over a table that has records, none of them PRODUCT's
C4_Witness ==
    /\ pc = "q1_done"
    /\ node_metadata_df # <<>>
    /\ ~ProductParsed(PRODUCT)

\* C7: no two records of the parser's output share an id.
C7_IdsUnique ==
    \A i, j \in 1..Len(metadata_df) :
        i # j => metadata_df[i].id # metadata_df[j].id

\* the block has an Id line followed by an ASIN line and a line break
HasIdAndAsin(b) ==
    \E i \in 1..Len(b) :
        /\ b[i].key = "Id" /\ At(b, i + 1, "CRLF")
        /\ At(b, i + 2, "ASIN") /\ At(b, i + 3, "CRLF")

IdOfBlock(b) == b[Min({i \in 1..Len(b) : b[i].key = "Id"})].val

\* one of the lines the pattern `regex` asks for is missing, or nothing
\* follows the reviews line
MissesRequiredField(b) ==
    \/ \E k \in {"title", "group", "salesrank", "similar", "categories", "reviews"} :
           \A i \in 1..Len(b) : b[i].key # k
    \/ b[Len(b)].key = "reviews"

AllDefaults(r) ==
    /\ r.title = EmptyText /\ r.group = "" /\ r.salesrank = ""
    /\ r.similar_count = "" /\ r.categories_count = ""
    /\ r.reviews_total = "" /\ r.reviews_downloaded = ""
    /\ r.reviews_avg_rating = ""
    /\ r.similar = <<EmptyText>>
    /\ r.categories = <<EmptyText>>
    /\ r.reviews = <<EmptyText>>

\* C8: the records are those of the blocks that have an id (a block is
\* dropped if and only if its extracted id is empty), and a kept block that
\* misses a field of the composite pattern has the empty-string default in
\* every field taken from that pattern: the empty string in its scalar
\* fields and, in its list fields, nothing but the empty string.
C8_DroppedIffNoIdAndDefaults ==
    pc # "read_metadata" =>
        \A kept \in {SelectSeq(FileBlocks, HasIdAndAsin)} :
            /\ Len(metadata_df) = Len(kept)
            /\ \A k \in 1..Len(kept) :
                   /\ metadata_df[k].id = IdOfBlock(kept[k])
                   /\ metadata_df[k].id # ""
                   /\ MissesRequiredField(kept[k]) => AllDefaults(metadata_df[k])

\* a block without an id has been dropped, and a block that has all its
\* fields but nothing after its reviews line has been kept, all defaults
C8_Witness ==
    /\ pc = "save_table"
    /\ Len(metadata_df) = 1
    /\ Len(FileBlocks) = 2
    /\ \E i \in 1..2 : FileBlocks[i] = FullBlock(PRODUCT, <<>>)
    /\ AllDefaults(metadata_df[1])

(***************************************************************************)
(* Q3: the graph of the June snapshot and the breadth-first search of      *)
(* GraphFrame.bfs from the start product to a product of another group.    *)
(* A vertex is a row of node_metadata_df, of which the search reads the    *)
(* columns id, title and group; a path is the sequence of its vertices.    *)
(***************************************************************************)
Products == 1..MaxProduct
Groups == {"Book", "DVD", ""}
TitleNames == <<"Casebook", "Commentary", "Jonny Quest", "Greatest Plays", "Patterns">>
TitleOf(n) == TitleNames[n]
UnknownTitle == "No Such Title"

Vertex(n, grp) == [id |-> n, title |-> TitleOf(n), group |-> grp]

\* the tables of vertices: every product has a record, of any group
VertexTables ==
    {[n \in Products |-> Vertex(n, grp[n])] : grp \in [Products -> Groups]}

\* the June snapshots: up to MaxEdges distinct edges, self-loops and cycles
\* among them
JuneSnapshots ==
    {SetToBag({Row(Some(e[1]), Some(e[2])) : e \in E}) :
        E \in {F \in SUBSET (Products \X Products) : Cardinality(F) <= MaxEdges}}

\* line 308: selectExpr("FromNodeId as src", "ToNodeId as dst")
AsEdges(df) ==
    LET edge(r) == [src |-> r.FromNodeId, dst |-> r.ToNodeId]
    IN  [e \in {edge(r) : r \in BagToSet(df)}
            |-> CopiesIn(Row(e.src, e.dst), df)]

\* line 309
GraphFrame(v, e) == [vertices |-> {v[i] : i \in 1..Len(v)}, edges |-> AsEdges(e)]

\* the filters of line 319: f"id = {start_node_id}" and
\* f"group != '{start_node_group}' AND group != ''"
FromExpr(v, id) == v.id = id
ToExpr(v, grp) == v.group # grp /\ v.group # ""

\* g.find("(a)-[e]->(b)"): the edges joined with the vertices at both ends
Motif(graph) ==
    {m \in [a : graph.vertices, b : graph.vertices] :
        \E e \in BagToSet(graph.edges) :
            SqlEq(e.src, Some(m.a.id)) /\ SqlEq(e.dst, Some(m.b.id))}

Last(p) == p[Len(p)]

\* the first step of the search: the edges out of the start vertex that are
\* no self-loops
FirstStep(a2b, id) ==
    {<<m.a, m.b>> : m \in {x \in a2b : FromExpr(x.a, id) /\ x.a.id # x.b.id}}

\* a later step: every path extended by every edge out of its last vertex
\* to a vertex that is not on the path
NextStep(a2b, ps) ==
    {x[1] \o <<x[2].b>> :
        x \in {y \in ps \X a2b :
                  /\ y[2].a.id = Last(y[1]).id
                  /\ \A i \in 1..Len(y[1]) : y[1][i].id # y[2].b.id}}

\* a loop that takes one step more than maxPathLength
LoopContinues_OneMore(iter, k, found) == iter <= k /\ ~found

\* while (iter < maxPathLength && !foundPath)
LoopContinues(iter, k, found) == iter < k /\ ~found

\* the results limit(1) can give
Limit1(rows) == IF rows = {} THEN {{}} ELSE {{r} : r \in rows}

(***************************************************************************)
(* The cells that build the graph and answer Q3                            *)
(***************************************************************************)
InitBfs ==
    /\ pc = "create_graph"
    /\ error = ""
    /\ NoEdges
    /\ NoMetadata
    /\ NoSearch

\* lines 308-309, over the table and the snapshot the earlier cells left
CreateGraph ==
    /\ pc = "create_graph"
    /\ \E v \in VertexTables, e \in JuneSnapshots :
           /\ node_metadata_df' = v
           /\ june_df' = e
           /\ g' = GraphFrame(v, e)
    /\ pc' = "resolve_start"
    /\ UNCHANGED <<error, early_march_df, late_march_df, may_df,
                   consistent_bidirectional_edges, meta_file, metadata_df,
                   rating_percentages_df, start_title, maxPathLength,
                   start_node_group, start_node_id, bfs_paths, bfs_iter,
                   bfs_found, paths>>

\* the titles asked for: the first product's (the tables and snapshots
\* explored are closed under renaming the products) and one no product has
StartTitles == {TitleOf(1), UnknownTitle}

\* lines 314-317
ResolveStart ==
    /\ pc = "resolve_start"
    /\ \E t \in StartTitles :
           /\ start_title' = t
           /\ LET start_node == {v \in g.vertices : v.title = t}
              IN  IF start_node = {}
                  THEN \* collect()[0] of no rows
                       /\ error' = "IndexError"
                       /\ pc' = "q3_failed"
                       /\ UNCHANGED <<start_node_group, start_node_id>>
                  ELSE /\ \E v \in start_node :
                              /\ start_node_group' = v.group
                              /\ start_node_id' = v.id
                       /\ pc' = "bfs"
                       /\ UNCHANGED error
    /\ UNCHANGED <<edgeVars, metaVars, g, maxPathLength, bfs_paths, bfs_iter,
                   bfs_found, paths>>

\* line 319, g.bfs up to its loop: no search when no vertex passes one of
\* the filters, and the start vertex itself when it passes both
BfsStart ==
    /\ pc = "bfs"
    /\ \E k \in 0..MaxDepth : maxPathLength' = k
    /\ LET fromDF == {v \in g.vertices : FromExpr(v, start_node_id)}
           toDF == {v \in g.vertices : ToExpr(v, start_node_group)}
           fromEqualsToDF == {v \in fromDF : ToExpr(v, start_node_group)}
       IN  IF fromDF = {} \/ toDF = {}
           THEN paths' = {} /\ pc' = "q3_done"
           ELSE IF fromEqualsToDF # {}
           THEN paths' \in Limit1({<<v>> : v \in fromEqualsToDF}) /\ pc' = "q3_done"
           ELSE paths' = {} /\ pc' = "bfs_loop"
    /\ bfs_paths' = {}
    /\ bfs_iter' = 0
    /\ bfs_found' = FALSE
    /\ UNCHANGED <<error, edgeVars, metaVars, g, start_title,
                   start_node_group, start_node_id>>

\* one turn of the loop of g.bfs
BfsIterate ==
    /\ pc = "bfs_loop"
    /\ LoopContinues(bfs_iter, maxPathLength, bfs_found)
    /\ LET a2b == Motif(g)
           extended == IF bfs_iter = 0 THEN FirstStep(a2b, start_node_id)
                       ELSE NextStep(a2b, bfs_paths)
           foundPathDF == {p \in extended : ToExpr(Last(p), start_node_group)}
       IN  IF foundPathDF # {}
           THEN bfs_paths' = foundPathDF /\ bfs_found' = TRUE
           ELSE bfs_paths' = extended /\ bfs_found' = FALSE
    /\ bfs_iter' = bfs_iter + 1
    /\ UNCHANGED <<pc, error, edgeVars, metaVars, g, start_title, maxPathLength,
                   start_node_group, start_node_id, paths>>

\* the end of g.bfs, and limit(1)
BfsReturn ==
    /\ pc = "bfs_loop"
    /\ ~LoopContinues(bfs_iter, maxPathLength, bfs_found)
    /\ paths' \in Limit1(IF bfs_found THEN bfs_paths ELSE {})
    /\ pc' = "q3_done"
    /\ UNCHANGED <<error, edgeVars, metaVars, g, start_title, maxPathLength,
                   start_node_group, start_node_id, bfs_paths, bfs_iter, bfs_found>>

NextBfs == CreateGraph \/ ResolveStart \/ BfsStart \/ BfsIterate \/ BfsReturn

SpecBfs == InitBfs /\ [][NextBfs]_vars

(***************************************************************************)
(* Claims about Q3 (checked under SpecBfs), stated against the June        *)
(* snapshot and the table of products                                      *)
(***************************************************************************)
JuneEdge(u, v) == BagIn(Row(Some(u), Some(v)), june_df)

GroupOfProduct(n) ==
    LET i == CHOOSE j \in 1..Len(node_metadata_df) : node_metadata_df[j].id = n
    IN  node_metadata_df[i].group

RECURSIVE WithinSteps(_, _)
\* the products reached from a along at most n edges
WithinSteps(a, n) ==
    IF n = 0 THEN {a}
    ELSE LET near == WithinSteps(a, n - 1)
         IN  near \cup {v \in Products : \E u \in near : JuneEdge(u, v)}

Divergent(n) == GroupOfProduct(n) # "" /\ GroupOfProduct(n) # start_node_group

\* the depths, up to k, at which a divergent product is within reach
DivergentDepths(a, k) ==
    {d \in 0..k : \E n \in WithinSteps(a, d) : Divergent(n)}

\* p is a path of d edges of the June snapshot from a to a divergent product
IsDivergentPath(p, a, d) ==
    /\ Len(p) = d + 1
    /\ p[1].id = a
    /\ \A i \in 1..d : JuneEdge(p[i].id, p[i + 1].id)
    /\ p[Len(p)].group # "" /\ p[Len(p)].group # start_node_group
    /\ p[Len(p)].group = GroupOfProduct(p[Len(p)].id)

C6_UnknownStartGivesEmptyResult ==
    (pc \in {"q3_done", "q3_failed"}
        /\ \A v \in g.vertices : v.title # start_title) =>
        /\ pc = "q3_done"
        /\ error = ""
        /\ paths = {}
====
